---- MODULE Spec2Model ----
(***************************************************************************)
(* The MCP tool server of gauravkantrodtw/mcp: module loading (the tool     *)
(* registrations that run as import side effects), the three entry points   *)
(* (main.py, simple_mcp_server.py, fastapi_server.py), the five tool        *)
(* handlers and the storage accessors of utils/file_reader.py.              *)
(*                                                                          *)
(* Strings are TLA+ strings; an f-string is the concatenation of its        *)
(* pieces. The external storage (local data directory, S3) is not program   *)
(* state: each read draws the answer the storage gives from a small set.    *)
(***************************************************************************)
EXTENDS Naturals, Sequences, FiniteSets, TLC

VARIABLES entry, pc, modules, mcps, served, manager, sessions, lastReq, lastResp,
          stdin, stdout, inflight, frames, shutdown,
          script, proxy, invocation, driver, package, deploy

\* the lines the stdio server has read and the lines it has written
io == <<stdin, stdout>>

\* the invocations being handled at the same time, and the memory cells
\* that hold what their handlers read from the storage
tasks == <<inflight, frames>>

\* the scripts of the repository that are not servers: which one runs, and
\* the state of each
scripts == <<script, proxy, invocation, driver, package, deploy>>

vars == <<entry, pc, modules, mcps, served, manager, sessions, lastReq, lastResp, io,
          tasks, shutdown, scripts>>

----------------------------------------------------------------------------
(* Bounds of the model *)

MaxRows == 2
MaxCols == 2
MaxBuckets == 2
MaxId == 2
MaxSessions == 2
MaxLines == 3
MaxInflight == 2

----------------------------------------------------------------------------
(* Strings *)

StartsWith(s, p) == Len(s) >= Len(p) /\ SubSeq(s, 1, Len(p)) = p

RECURSIVE Contains(_, _)
Contains(s, p) ==
  IF Len(s) < Len(p) THEN FALSE
  ELSE StartsWith(s, p) \/ Contains(SubSeq(s, 2, Len(s)), p)

RECURSIVE JoinLines(_)
\* "\n".join(lines)
JoinLines(lines) ==
  IF lines = <<>> THEN ""
  ELSE IF Len(lines) = 1 THEN lines[1]
  ELSE lines[1] \o "\n" \o JoinLines(Tail(lines))

Min(a, b) == IF a < b THEN a ELSE b

RECURSIVE SplitLines(_)
\* s.split("\n")
SplitLines(s) ==
  IF \E i \in 1..Len(s) : SubSeq(s, i, i) = "\n"
  THEN LET i == CHOOSE i \in 1..Len(s) :
                  SubSeq(s, i, i) = "\n" /\ \A j \in 1..(i - 1) : SubSeq(s, j, j) # "\n"
       IN <<SubSeq(s, 1, i - 1)>> \o SplitLines(SubSeq(s, i + 1, Len(s)))
  ELSE <<s>>

----------------------------------------------------------------------------
(* What a call returns: a value, or an exception with its message str(e).  *)
(* calls lists the storage accessors the call entered.                     *)

Return(v, c) == [raised |-> FALSE, exc |-> "", value |-> v, calls |-> c]
Raise(e, c) == [raised |-> TRUE, exc |-> e, value |-> "", calls |-> c]

----------------------------------------------------------------------------
(* The external storage: what a read finds.  st is "ok" for a well-formed  *)
(* table of rows x cols, or the way the read fails.                         *)

Table(r, c) == [st |-> "ok", rows |-> r, cols |-> c, names |-> <<>>]
Broken(how) == [st |-> how, rows |-> 0, cols |-> 0, names |-> <<>>]
Listing(ns) == [st |-> "ok", rows |-> 0, cols |-> 0, names |-> ns]
Unread == Broken("unread")

\* df.head() shows at most this many rows
HeadRows == 5

\* the row counts of the stored tables: the small ones, and the two around
\* the length of a preview
RowCounts == (0..MaxRows) \cup {HeadRows, HeadRows + 1}

Tables == {Table(r, c) : r \in RowCounts, c \in 1..MaxCols}
LocalAnswers == Tables \cup {Broken("missing"), Broken("malformed")}
S3Answers == Tables \cup {Broken("denied"), Broken("nosuchkey")}
BucketNames == {"alpha", "beta"}
BucketLists == UNION {[1..n -> BucketNames] : n \in 0..MaxBuckets}
BucketAnswers == {Listing(ns) : ns \in BucketLists} \cup {Broken("denied")}

\* str(e) of the exception a failed read raises
ExcMessage(st) ==
  CASE st = "missing" -> "[Errno 2] No such file or directory"
    [] st = "malformed" -> "Error tokenizing data"
    [] st = "denied" -> "Access Denied"
    [] st = "nosuchkey" -> "The specified key does not exist."
    [] OTHER -> "error"

\* pd.read_csv / pd.read_parquet: the frame, or the exception
pd_read(ans) == IF ans.st = "ok" THEN Return(ans, <<>>) ELSE Raise(ExcMessage(ans.st), <<>>)

RECURSIVE RenderRows(_, _)
RenderRows(n, m) ==
  IF n = 0 THEN ""
  ELSE RenderRows(n - 1, m) \o "\n" \o ToString(n - 1) \o " x" \o ToString(m)

\* as df_head, for str(df): every row of the frame
df_head_all(df) ==
  IF df.rows = 0 THEN "Empty DataFrame"
  ELSE "cols" \o ToString(df.cols) \o RenderRows(df.rows, df.cols)

\* str(df.head()): the first min(len(df), 5) rows
df_head(df) ==
  IF df.rows = 0 THEN "Empty DataFrame"
  ELSE "cols" \o ToString(df.cols) \o RenderRows(Min(df.rows, HeadRows), df.cols)

----------------------------------------------------------------------------
(* utils/file_reader.py *)

\* as read_csv_summary, with the two counts the other way round
read_csv_summary_swapped(filename, ans) ==
  LET r == pd_read(ans) IN
  IF r.raised THEN Raise(r.exc, <<"read_csv_summary">>)
  ELSE Return("CSV file '" \o filename \o "' has " \o ToString(r.value.cols)
              \o " rows and " \o ToString(r.value.rows) \o " columns.",
              <<"read_csv_summary">>)

read_csv_summary(filename, ans) ==
  LET r == pd_read(ans) IN
  IF r.raised THEN Raise(r.exc, <<"read_csv_summary">>)
  ELSE Return("CSV file '" \o filename \o "' has " \o ToString(r.value.rows)
              \o " rows and " \o ToString(r.value.cols) \o " columns.",
              <<"read_csv_summary">>)

read_parquet_summary(filename, ans) ==
  LET r == pd_read(ans) IN
  IF r.raised THEN Raise(r.exc, <<"read_parquet_summary">>)
  ELSE Return("Parquet file '" \o filename \o "' has " \o ToString(r.value.rows)
              \o " rows and " \o ToString(r.value.cols) \o " columns.",
              <<"read_parquet_summary">>)

read_csv_data(filename, ans) ==
  LET r == pd_read(ans) IN
  IF r.raised THEN Raise(r.exc, <<"read_csv_data">>)
  ELSE Return("\n        CSV file '" \o filename \o "' has " \o ToString(r.value.rows)
              \o " rows and " \o ToString(r.value.cols) \o " columns."
              \o "\n        Data points are: " \o df_head(r.value) \o "\n        ",
              <<"read_csv_data">>)

\* as read_csv_from_s3, without the except branch: the exception leaves the function
read_csv_from_s3_raising(path, ans) ==
  LET r == pd_read(ans) IN
  IF r.raised THEN Raise(r.exc, <<"read_csv_from_s3">>)
  ELSE Return("\n        CSV file '" \o path \o "' has " \o ToString(r.value.rows)
              \o " rows and " \o ToString(r.value.cols) \o " columns."
              \o "\n        Data points are: " \o df_head(r.value) \o "\n        ",
              <<"read_csv_from_s3">>)

read_csv_from_s3(path, ans) ==
  LET r == pd_read(ans) IN
  IF r.raised THEN Return("Error reading S3 file: " \o r.exc, <<"read_csv_from_s3">>)
  ELSE Return("\n        CSV file '" \o path \o "' has " \o ToString(r.value.rows)
              \o " rows and " \o ToString(r.value.cols) \o " columns."
              \o "\n        Data points are: " \o df_head(r.value) \o "\n        ",
              <<"read_csv_from_s3">>)

\* s3.list_buckets(): the response, or the exception
s3_list_buckets(ans) == IF ans.st = "ok" THEN Return(ans, <<>>) ELSE Raise(ExcMessage(ans.st), <<>>)

\* as list_all_the_buckets, without the except branch: the exception leaves
\* the function
list_all_the_buckets_raising(ans) ==
  LET r == s3_list_buckets(ans) IN
  IF r.raised THEN Raise(r.exc, <<"list_all_the_buckets">>)
  ELSE LET buckets == r.value.names
       IN Return("Found " \o ToString(Len(buckets)) \o " S3 buckets:\n"
                 \o JoinLines([i \in 1..Len(buckets) |-> "- " \o buckets[i]]),
                 <<"list_all_the_buckets">>)

\* as list_all_the_buckets, with the entries written last bucket first
list_all_the_buckets_reversed(ans) ==
  LET r == s3_list_buckets(ans) IN
  IF r.raised THEN Return("Error listing S3 buckets: " \o r.exc, <<"list_all_the_buckets">>)
  ELSE LET buckets == r.value.names
       IN Return("Found " \o ToString(Len(buckets)) \o " S3 buckets:\n"
                 \o JoinLines([i \in 1..Len(buckets) |->
                                 "- " \o buckets[Len(buckets) + 1 - i]]),
                 <<"list_all_the_buckets">>)

list_all_the_buckets(ans) ==
  LET r == s3_list_buckets(ans) IN
  IF r.raised THEN Return("Error listing S3 buckets: " \o r.exc, <<"list_all_the_buckets">>)
  ELSE LET buckets == r.value.names
       IN Return("Found " \o ToString(Len(buckets)) \o " S3 buckets:\n"
                 \o JoinLines([i \in 1..Len(buckets) |-> "- " \o buckets[i]]),
                 <<"list_all_the_buckets">>)

----------------------------------------------------------------------------
(* tools/*.py: the five handlers.  Each calls its accessor in a try block  *)
(* whose except branch logs and re-raises.                                  *)

\* as summarize_csv_file, with an except branch that returns the message
summarize_csv_file_swallowing(filename, ans) ==
  LET r == read_csv_summary(filename, ans) IN
  IF r.raised THEN Return("Error summarizing CSV file: " \o r.exc, r.calls)
  ELSE Return(r.value, r.calls)

summarize_csv_file(filename, ans) ==
  LET r == read_csv_summary(filename, ans) IN
  IF r.raised THEN Raise(r.exc, r.calls) ELSE Return(r.value, r.calls)

read_csv_file_data(filename, ans) ==
  LET r == read_csv_data(filename, ans) IN
  IF r.raised THEN Raise(r.exc, r.calls) ELSE Return(r.value, r.calls)

summarize_parquet_file(filename, ans) ==
  LET r == read_parquet_summary(filename, ans) IN
  IF r.raised THEN Raise(r.exc, r.calls) ELSE Return(r.value, r.calls)

read_csv_file_data_s3(filepath, ans) ==
  LET r == read_csv_from_s3(filepath, ans) IN
  IF r.raised THEN Raise(r.exc, r.calls) ELSE Return(r.value, r.calls)

list_buckets(ans) ==
  LET r == list_all_the_buckets(ans) IN
  IF r.raised THEN Raise(r.exc, r.calls) ELSE Return(r.value, r.calls)

\* tools/s3_tools.py: the line a wrapper logs last, after its accessor
\* returned (logger.info) or raised (logger.error)
s3_tools_log(fn, filepath, ans) ==
  IF fn = "list_buckets"
  THEN LET r == list_all_the_buckets(ans) IN
       IF r.raised THEN "Error listing S3 buckets: " \o r.exc
       ELSE "Successfully listed S3 buckets"
  ELSE LET r == read_csv_from_s3(filepath, ans) IN
       IF r.raised THEN "Error reading CSV from S3 " \o filepath \o ": " \o r.exc
       ELSE "Successfully read CSV from S3: " \o filepath

\* what the decorator reads off a function: its name, its docstring (first
\* line), its parameters with their types
FnDoc(fn) ==
  CASE fn = "summarize_csv_file" ->
         "Summarize a CSV file by reporting its number of rows and columns."
    [] fn = "read_csv_file_data" -> "Read data from CSV file."
    [] fn = "summarize_parquet_file" ->
         "Summarize a Parquet file by reporting its number of rows and columns."
    [] fn = "read_csv_file_data_s3" -> "Read CSV data directly from S3."
    [] fn = "list_buckets" -> "List all the buckets in the AWS S3."
    [] OTHER -> ""

FnParams(fn) ==
  CASE fn \in {"summarize_csv_file", "read_csv_file_data", "summarize_parquet_file"} ->
         {<<"filename", "str">>}
    [] fn = "read_csv_file_data_s3" -> {<<"filepath", "str">>}
    [] OTHER -> {}

ToolOf(fn) ==
  [name |-> fn, description |-> FnDoc(fn), params |-> FnParams(fn), handler |-> fn]

----------------------------------------------------------------------------
(* Tool Registry (spec 4.1) *)

Position(reg, name) ==
  IF \E i \in 1..Len(reg) : reg[i].name = name
  THEN CHOOSE i \in 1..Len(reg) : reg[i].name = name
  ELSE 0

register(reg, tool) ==
  IF Position(reg, tool.name) = 0 THEN Append(reg, tool)
  ELSE [reg EXCEPT ![Position(reg, tool.name)] = tool]

list(reg) == reg

NotFound == "not found"

resolve(reg, name) ==
  IF Position(reg, name) = 0 THEN NotFound ELSE reg[Position(reg, name)].handler

Names(reg) == [i \in 1..Len(reg) |-> reg[i].name]

----------------------------------------------------------------------------
(* Module bodies: the registrations an import runs, in source order *)

csv_tools(reg) ==
  register(register(reg, ToolOf("summarize_csv_file")), ToolOf("read_csv_file_data"))

\* as parquet_tools, with the decorator left off
parquet_tools_undecorated(reg) == reg

parquet_tools(reg) == register(reg, ToolOf("summarize_parquet_file"))

s3_tools(reg) ==
  register(register(reg, ToolOf("read_csv_file_data_s3")), ToolOf("list_buckets"))

\* the instance the tool modules decorate: "from server import mcp"
ToolsMcp == "server"

\* as ToolModules, with the s3 import moved to the top
ToolModules_s3_first == <<"s3_tools", "csv_tools", "parquet_tools">>

\* tools/__init__.py: the imports, in order
ToolModules == <<"csv_tools", "parquet_tools", "s3_tools">>

----------------------------------------------------------------------------
(* Dispatcher (spec 4.2) *)

Success(v, c) == [kind |-> "success", payload |-> v, handlerCalls |-> 1, calls |-> c]
Failure(e, n, c) == [kind |-> "failure", payload |-> e, handlerCalls |-> n, calls |-> c]
NoResult == [kind |-> "none", payload |-> "", handlerCalls |-> 0, calls |-> <<>>]

Given(args) == {a[1] : a \in args}
Arg(args, k) == (CHOOSE a \in args : a[1] = k)[2]

\* the handler called with the argument mapping unpacked as named parameters
CallHandler(h, args, ans) ==
  CASE h = "summarize_csv_file" -> summarize_csv_file(Arg(args, "filename"), ans)
    [] h = "read_csv_file_data" -> read_csv_file_data(Arg(args, "filename"), ans)
    [] h = "summarize_parquet_file" -> summarize_parquet_file(Arg(args, "filename"), ans)
    [] h = "read_csv_file_data_s3" -> read_csv_file_data_s3(Arg(args, "filepath"), ans)
    [] h = "list_buckets" -> list_buckets(ans)

Required(h) == {q[1] : q \in FnParams(h)}

\* as invoke, with an unknown name falling back on list_buckets
invoke_fallback(reg, name, args, ans) ==
  LET h == IF resolve(reg, name) = NotFound /\ Position(reg, "list_buckets") # 0
           THEN "list_buckets" ELSE resolve(reg, name) IN
  IF h = NotFound THEN Failure("tool not found: " \o name, 0, <<>>)
  ELSE IF ~(Required(h) \subseteq Given(args))
    THEN Failure("missing required argument", 0, <<>>)
  ELSE LET out == CallHandler(h, args, ans)
       IN IF out.raised THEN Failure(out.exc, 1, out.calls) ELSE Success(out.value, out.calls)

invoke(reg, name, args, ans) ==
  LET h == resolve(reg, name) IN
  IF h = NotFound THEN Failure("tool not found: " \o name, 0, <<>>)
  ELSE IF ~(Required(h) \subseteq Given(args))
    THEN Failure("missing required argument", 0, <<>>)
  ELSE LET out == CallHandler(h, args, ans)
       IN IF out.raised THEN Failure(out.exc, 1, out.calls) ELSE Success(out.value, out.calls)

----------------------------------------------------------------------------
(* Entry points *)

EntryPoints ==
  {"main", "simple_mcp_server", "fastapi_server", "lambda_handler", "test_config"}

\* the entry points that serve the FastAPI application of fastapi_server.py:
\* the module itself, and lambda_handler.py, which imports its app
FastApiEntryPoints == {"fastapi_server", "lambda_handler"}

\* as Program, with mcp.run() placed before the import of the tools package
Program_run_first(e) ==
  CASE e = "main" -> <<"server", "run">> \o ToolModules
    [] e = "simple_mcp_server" -> <<"server", "run">> \o ToolModules
    [] e = "fastapi_server" -> <<"FastMCP">> \o ToolModules \o <<"mount", "lifespan">>
    [] e = "lambda_handler" -> <<"FastMCP">> \o ToolModules \o <<"mount", "Mangum">>
    [] e = "test_config" -> <<"server">> \o ToolModules \o <<"list_tools">>

\* the module-level statements of each entry point, in order
Program(e) ==
  CASE e = "main" -> <<"server">> \o ToolModules \o <<"run">>
    [] e = "simple_mcp_server" -> <<"server">> \o ToolModules \o <<"run">>
    [] e = "fastapi_server" -> <<"FastMCP">> \o ToolModules \o <<"mount", "lifespan">>
    [] e = "lambda_handler" -> <<"FastMCP">> \o ToolModules \o <<"mount", "Mangum">>
    [] e = "test_config" -> <<"server">> \o ToolModules \o <<"list_tools">>

Stmt == IF pc <= Len(Program(entry)) THEN Program(entry)[pc] ELSE "serving"

\* the instance an entry point serves
ServedMcp(e) == IF e \in FastApiEntryPoints THEN "fastapi_server" ELSE "server"

Transport(e) == IF e = "main" THEN "stdio" ELSE "http"

\* as StatelessHttp, with the flag left at its default everywhere
StatelessHttp_default(e) == FALSE

\* FastMCP(..., stateless_http=True) in fastapi_server.py; the default elsewhere
StatelessHttp(e) == e \in FastApiEntryPoints

Instances == {"server", "fastapi_server"}

NoReq == [method |-> "none", id |-> 0, name |-> "", args |-> {}, sid |-> 0, ans |-> Unread]
NoResp == [http |-> 0, id |-> 0, kind |-> "none", tools |-> <<>>, result |-> NoResult,
           session |-> 0, body |-> <<>>]

\* an invocation slot nothing was decoded into: trail lists the stages the
\* invocation went through, skip the stages it will not go through
NoTask == [trail |-> <<>>, skip |-> {}, name |-> "", args |-> {}, handler |-> "",
           ans |-> Unread, result |-> NoResult, resp |-> NoResp]

\* main() of main.py has not left mcp.run()
NotStopped == [outcome |-> "running", logs |-> <<>>, raised |-> FALSE]

\* the scripts before they run
NoResponse == [statusCode |-> 0, headers |-> {}, body |-> <<>>]
NoOutcome == [raised |-> FALSE, exc |-> "", value |-> NoResponse]
IdleProxy == [at |-> "idle", input |-> <<>>, read |-> 0, output |-> <<>>, relays |-> <<>>]
IdleInvocation == [at |-> "idle", outcome |-> NoOutcome, result |-> NoOutcome]
IdleDriver == [at |-> "idle", server |-> "none", session_id |-> "", posts |-> <<>>]
IdlePackage ==
  [at |-> "idle", dir |-> FALSE, body |-> "", ret |-> "", raised |-> FALSE, rmtree |-> "ok"]
IdleDeploy ==
  [at |-> "idle", calls |-> <<>>, prepare |-> "", code |-> "", config |-> "", ret |-> ""]

Init ==
  /\ entry \in EntryPoints
  /\ pc = 1
  /\ modules = {}
  /\ mcps = [i \in Instances |-> <<>>]
  /\ served = "none"
  /\ manager = "off"
  /\ sessions = {}
  /\ lastReq = NoReq
  /\ lastResp = NoResp
  /\ stdin = <<>>
  /\ stdout = <<>>
  /\ inflight = [k \in 1..MaxInflight |-> NoTask]
  /\ frames = [k \in 1..MaxInflight |-> Unread]
  /\ shutdown = NotStopped
  /\ script = "none"
  /\ proxy = IdleProxy
  /\ invocation = IdleInvocation
  /\ driver = IdleDriver
  /\ package = IdlePackage
  /\ deploy = IdleDeploy

\* "from server import mcp": server.py runs once and creates the shared instance
ImportedServer(mods) == mods \cup {"server"}

ImportServer ==
  /\ Stmt = "server"
  /\ modules' = ImportedServer(modules)
  /\ pc' = pc + 1
  /\ UNCHANGED <<entry, mcps, served, manager, sessions, lastReq, lastResp, io, tasks,
                 shutdown, scripts>>

\* fastapi_server.py: mcp = FastMCP("S3 CSV Analysis Server", stateless_http=True)
CreateMcp ==
  /\ Stmt = "FastMCP"
  /\ modules' = modules \cup {"fastapi_server"}
  /\ pc' = pc + 1
  /\ UNCHANGED <<entry, mcps, served, manager, sessions, lastReq, lastResp, io, tasks,
                 shutdown, scripts>>

ImportCsvTools ==
  /\ Stmt = "csv_tools"
  /\ modules' = ImportedServer(modules) \cup {"csv_tools"}
  /\ mcps' = [mcps EXCEPT ![ToolsMcp] = csv_tools(@)]
  /\ pc' = pc + 1
  /\ UNCHANGED <<entry, served, manager, sessions, lastReq, lastResp, io, tasks,
                 shutdown, scripts>>

ImportParquetTools ==
  /\ Stmt = "parquet_tools"
  /\ modules' = ImportedServer(modules) \cup {"parquet_tools"}
  /\ mcps' = [mcps EXCEPT ![ToolsMcp] = parquet_tools(@)]
  /\ pc' = pc + 1
  /\ UNCHANGED <<entry, served, manager, sessions, lastReq, lastResp, io, tasks,
                 shutdown, scripts>>

ImportS3Tools ==
  /\ Stmt = "s3_tools"
  /\ modules' = ImportedServer(modules) \cup {"s3_tools"}
  /\ mcps' = [mcps EXCEPT ![ToolsMcp] = s3_tools(@)]
  /\ pc' = pc + 1
  /\ UNCHANGED <<entry, served, manager, sessions, lastReq, lastResp, io, tasks,
                 shutdown, scripts>>

\* mcp.run() / mcp.run(transport='streamable-http')
Run ==
  /\ Stmt = "run"
  /\ served' = ServedMcp(entry)
  /\ manager' = "running"
  /\ pc' = pc + 1
  /\ UNCHANGED <<entry, modules, mcps, sessions, lastReq, lastResp, io, tasks,
                 shutdown, scripts>>

\* app.mount("/mcp", mcp.streamable_http_app())
Mount ==
  /\ Stmt = "mount"
  /\ served' = ServedMcp(entry)
  /\ pc' = pc + 1
  /\ UNCHANGED <<entry, modules, mcps, manager, sessions, lastReq, lastResp, io, tasks,
                 shutdown, scripts>>

\* the lifespan's startup half: a log line
Lifespan ==
  /\ Stmt = "lifespan"
  /\ pc' = pc + 1
  /\ UNCHANGED <<entry, modules, mcps, served, manager, sessions, lastReq, lastResp,
                 io, tasks, shutdown, scripts>>

\* lambda_handler.py: handler = Mangum(app, lifespan="off"); the adapter
\* never enters the application's lifespan
CreateHandler ==
  /\ Stmt = "Mangum"
  /\ pc' = pc + 1
  /\ UNCHANGED <<entry, modules, mcps, served, manager, sessions, lastReq, lastResp,
                 io, tasks, shutdown, scripts>>

----------------------------------------------------------------------------
(* Requests *)

FileNames == {"sample.csv"}
S3Paths == {"s3://bucket/key.csv", "s3://other/none.csv"}
LocalTools == {"summarize_csv_file", "read_csv_file_data", "summarize_parquet_file"}
RemoteTools == {"read_csv_file_data_s3", "list_buckets"}
Catalog == LocalTools \cup RemoteTools
RequestedNames == Catalog \cup {"nonexistent_tool"}
RequestIds == 1..MaxId

ArgsFor(name) ==
  CASE name \in LocalTools -> {{}} \cup {{<<"filename", f>>} : f \in FileNames}
    [] name = "read_csv_file_data_s3" -> {{}} \cup {{<<"filepath", q>>} : q \in S3Paths}
    [] name = "list_buckets" -> {{}}
    [] OTHER -> {{}} \cup {{<<"filename", f>>} : f \in FileNames}

\* what the storage answers to the read the named tool makes; a call that
\* does not get to its handler reads nothing
AnswersFor(reg, name, args) ==
  IF Position(reg, name) = 0 \/ ~(Required(name) \subseteq Given(args)) THEN {Unread}
  ELSE CASE name \in LocalTools -> LocalAnswers
         [] name = "read_csv_file_data_s3" -> S3Answers
         [] name = "list_buckets" -> BucketAnswers

Serving == Stmt = "serving" /\ served # "none"

\* whether the session manager takes the request: it does once started; a
\* manager that was never started either takes it or fails the request
Ups == IF manager = "running" THEN {TRUE} ELSE {TRUE, FALSE}

\* the transport's verdict on a request: 0 on stdio, else the HTTP status
Admit(method, sid, up) ==
  IF Transport(entry) = "stdio" THEN 0
  ELSE IF ~up THEN 500
  ELSE IF StatelessHttp(entry) THEN 200
  ELSE IF method = "initialize" THEN 200
  ELSE IF sid \in sessions THEN 200
  ELSE 400

Accepted(status) == status \in {0, 200}
Stateful == Transport(entry) = "http" /\ ~StatelessHttp(entry)

\* the mcp-session-id header of the response to an accepted request
SessionHeader(method, sid) ==
  IF ~Stateful THEN 0
  ELSE IF method = "initialize" THEN Cardinality(sessions) + 1
  ELSE sid

SidChoices == IF Stateful THEN sessions \cup {0} ELSE {0}

Respond(status, id, tools, result, session) ==
  [http |-> status, id |-> id,
   kind |-> IF Accepted(status) THEN "answered" ELSE "rejected",
   tools |-> IF Accepted(status) THEN tools ELSE <<>>,
   result |-> IF Accepted(status) THEN result ELSE NoResult,
   session |-> IF Accepted(status) THEN session ELSE 0,
   body |-> <<>>]

Initialize ==
  /\ Serving
  /\ Stateful => Cardinality(sessions) < MaxSessions
  /\ \E id \in RequestIds, up \in Ups :
       LET status == Admit("initialize", 0, up)
           hdr == SessionHeader("initialize", 0)
       IN /\ lastReq' = [NoReq EXCEPT !.method = "initialize", !.id = id]
          /\ lastResp' = Respond(status, id, <<>>, NoResult, hdr)
          /\ sessions' = IF Accepted(status) /\ hdr # 0 THEN sessions \cup {hdr}
                         ELSE sessions
  /\ UNCHANGED <<entry, pc, modules, mcps, served, manager, io, tasks, shutdown,
                 scripts>>

\* as RegistryAfter, with a handler that takes its tool off the registry
\* once it was called
RegistryAfter_forgetting(reg, method, name) ==
  LET Others(t) == t.name # name IN
  IF method = "tools/call" THEN SelectSeq(reg, Others) ELSE reg

\* as RegistryAfter, with a handler that registers itself again when called
RegistryAfter_registering(reg, method, name) ==
  IF method = "tools/call" THEN Append(reg, ToolOf(name)) ELSE reg

\* the registry after a tools/list or tools/call was handled: the handlers
\* and the accessors hold no reference to it
RegistryAfter(reg, method, name) == reg

ToolsList ==
  /\ Serving
  /\ \E id \in RequestIds, sid \in SidChoices, up \in Ups :
       LET status == Admit("tools/list", sid, up)
       IN /\ lastReq' = [NoReq EXCEPT !.method = "tools/list", !.id = id, !.sid = sid]
          /\ lastResp' = Respond(status, id, list(mcps[served]), NoResult,
                                 SessionHeader("tools/list", sid))
          /\ mcps' = [mcps EXCEPT ![served] =
                        IF Accepted(status) THEN RegistryAfter(@, "tools/list", "") ELSE @]
  /\ UNCHANGED <<entry, pc, modules, served, manager, sessions, io, tasks, shutdown,
                 scripts>>

ToolsCall ==
  /\ Serving
  /\ \E id \in RequestIds, sid \in SidChoices, up \in Ups, name \in RequestedNames :
       \E args \in ArgsFor(name) : \E ans \in AnswersFor(mcps[served], name, args) :
         LET status == Admit("tools/call", sid, up)
         IN /\ lastReq' = [method |-> "tools/call", id |-> id, name |-> name,
                           args |-> args, sid |-> sid, ans |-> ans]
            /\ lastResp' = Respond(status, id, <<>>, invoke(mcps[served], name, args, ans),
                                   SessionHeader("tools/call", sid))
            /\ mcps' = [mcps EXCEPT ![served] =
                          IF Accepted(status) THEN RegistryAfter(@, "tools/call", name) ELSE @]
  /\ UNCHANGED <<entry, pc, modules, served, manager, sessions, io, tasks, shutdown,
                 scripts>>

\* test_config.py, test_tools_registration: asyncio.run(mcp.list_tools())
ListTools ==
  /\ Stmt = "list_tools"
  /\ lastReq' = [NoReq EXCEPT !.method = "list_tools"]
  /\ lastResp' = Respond(0, 0, list(mcps[ServedMcp(entry)]), NoResult, 0)
  /\ pc' = pc + 1
  /\ UNCHANGED <<entry, modules, mcps, served, manager, sessions, io, tasks, shutdown,
                 scripts>>

\* as health_check, reporting the service under the name of the MCP instance
health_check_instance_name ==
  <<<<"status", "healthy">>, <<"service", "S3 CSV Analysis Server">>>>

\* fastapi_server.py, health_check(): the JSON object it returns, as its
\* key-value pairs
health_check ==
  <<<<"status", "healthy">>, <<"service", "S3 CSV Analysis MCP Server">>>>

\* GET /health on the FastAPI application
Health ==
  /\ entry \in FastApiEntryPoints
  /\ Serving
  /\ lastReq' = [NoReq EXCEPT !.method = "GET /health"]
  /\ lastResp' = [NoResp EXCEPT !.http = 200, !.kind = "answered", !.body = health_check]
  /\ UNCHANGED <<entry, pc, modules, mcps, served, manager, sessions, io, tasks,
                 shutdown, scripts>>

Next ==
  \/ ImportServer
  \/ CreateMcp
  \/ ImportCsvTools
  \/ ImportParquetTools
  \/ ImportS3Tools
  \/ Run
  \/ Mount
  \/ Lifespan
  \/ CreateHandler
  \/ ListTools
  \/ Initialize
  \/ ToolsList
  \/ ToolsCall
  \/ Health

Spec == Init /\ [][Next]_vars

----------------------------------------------------------------------------
(* main.py on its stdio transport, line by line: each line the server reads *)
(* from stdin is one request, each line it writes to stdout one response.   *)

\* the tools a stdio client calls, and what the storage answers
StdioNames == {"summarize_csv_file", "nonexistent_tool"}
StdioArgs == {<<"filename", "sample.csv">>}
StdioAnswers(reg, name) ==
  IF Position(reg, name) = 0 THEN {Unread} ELSE {Table(1, 1), Broken("missing")}

StdioRequests(reg) ==
  {[NoReq EXCEPT !.method = "initialize", !.id = id] : id \in RequestIds}
    \cup {[NoReq EXCEPT !.method = "tools/list", !.id = id] : id \in RequestIds}
    \cup UNION {{[method |-> "tools/call", id |-> id, name |-> name, args |-> StdioArgs,
                  sid |-> 0, ans |-> ans] : id \in RequestIds, ans \in StdioAnswers(reg, name)}
                 : name \in StdioNames}

\* as Replies, with the server numbering its responses itself
Replies_numbered(req, reg, written) ==
  LET r == CASE req.method = "initialize" -> Respond(0, written + 1, <<>>, NoResult, 0)
             [] req.method = "tools/list" -> Respond(0, written + 1, list(reg), NoResult, 0)
             [] req.method = "tools/call" ->
                  Respond(0, written + 1, <<>>, invoke(reg, req.name, req.args, req.ans), 0)
  IN <<r>>

\* the lines written for one request line: one response, under the
\* request's id; written is the number of lines written so far
Replies(req, reg, written) ==
  LET r == CASE req.method = "initialize" -> Respond(0, req.id, <<>>, NoResult, 0)
             [] req.method = "tools/list" -> Respond(0, req.id, list(reg), NoResult, 0)
             [] req.method = "tools/call" ->
                  Respond(0, req.id, <<>>, invoke(reg, req.name, req.args, req.ans), 0)
  IN <<r>>

InitStdio == Init /\ entry = "main"

\* the server reads one line and writes its answer
StdioMessage ==
  /\ Serving
  /\ Transport(entry) = "stdio"
  /\ Len(stdin) < MaxLines
  /\ \E req \in StdioRequests(mcps[served]) :
       LET out == Replies(req, mcps[served], Len(stdout))
       IN /\ stdin' = Append(stdin, req)
          /\ stdout' = stdout \o out
          /\ lastReq' = req
          /\ lastResp' = out[Len(out)]
          /\ mcps' = [mcps EXCEPT ![served] = RegistryAfter(@, req.method, req.name)]
  /\ UNCHANGED <<entry, pc, modules, served, manager, sessions, tasks, shutdown,
                 scripts>>

\* how mcp.run() can end: it returns (end of stdin), or an exception leaves it
RunOutcomes == {"returned", "KeyboardInterrupt", "Exception", "SystemExit"}

\* as main_exit, with the shutdown line logged after the try statement
\* instead of in a finally branch
main_exit_no_finally(outcome) ==
  [outcome |-> outcome,
   logs |-> CASE outcome = "KeyboardInterrupt" ->
                   <<"Server stopped by user", "Server shutdown complete">>
              [] outcome = "Exception" -> <<"Server error: Exception">>
              [] outcome = "SystemExit" -> <<>>
              [] OTHER -> <<"Server shutdown complete">>,
   raised |-> outcome \in {"Exception", "SystemExit"}]

\* main() of main.py from the end of mcp.run(): the except branch that takes
\* the outcome, then the finally branch; raised tells whether an exception
\* leaves main()
main_exit(outcome) ==
  [outcome |-> outcome,
   logs |-> (CASE outcome = "KeyboardInterrupt" -> <<"Server stopped by user">>
               [] outcome = "Exception" -> <<"Server error: Exception">>
               [] OTHER -> <<>>) \o <<"Server shutdown complete">>,
   raised |-> outcome \in {"Exception", "SystemExit"}]

\* mcp.run() ends and main() is left
Stop ==
  /\ Serving
  /\ entry = "main"
  /\ \E outcome \in RunOutcomes : shutdown' = main_exit(outcome)
  /\ served' = "none"
  /\ UNCHANGED <<entry, pc, modules, mcps, manager, sessions, lastReq, lastResp, io, tasks,
                 scripts>>

NextStdio ==
  \/ ImportServer
  \/ ImportCsvTools
  \/ ImportParquetTools
  \/ ImportS3Tools
  \/ Run
  \/ StdioMessage
  \/ Stop

SpecStdio == InitStdio /\ [][NextStdio]_vars

----------------------------------------------------------------------------
(* Invocations handled at the same time by the hosting runtime: each goes   *)
(* through its stages one step at a time, and the steps of different        *)
(* invocations interleave.                                                  *)

Slots == 1..MaxInflight

\* as Cell, with the frame kept under a module-level name
Cell_shared(k) == 1

\* the cell that holds what invocation k read: df (resp, buckets) is a local
\* variable of the accessor's call
Cell(k) == k

\* as HandlerSteps, with the handler returning before it calls its accessor
HandlerSteps_result_first == <<"result", "read">>

\* the body of a handler: result = <accessor>(...), then return result
HandlerSteps == <<"read", "result">>

\* the stages of a handled message (spec 2)
Pipeline == <<"decode", "resolve">> \o HandlerSteps \o <<"encode">>

\* the stages an invocation has still to go through, in order
Pending(t) ==
  LET Open(stage) == stage \notin t.skip /\ \A i \in 1..Len(t.trail) : t.trail[i] # stage
  IN SelectSeq(Pipeline, Open)

AtStage(t, stage) == Pending(t) # <<>> /\ Head(Pending(t)) = stage

Through(t, stage) == [t EXCEPT !.trail = Append(@, stage)]

ConcurrentNames == {"summarize_csv_file", "list_buckets", "nonexistent_tool"}

ConcurrentArgs(name) == IF name = "list_buckets" THEN {} ELSE {<<"filename", "sample.csv">>}

ConcurrentAnswers(name) ==
  IF name = "list_buckets" THEN {Listing(<<"alpha">>), Broken("denied")}
  ELSE {Table(1, 1), Broken("missing")}

InitConcurrent == Init /\ entry \in {"main", "simple_mcp_server"}

\* the adapter decodes a tools/call message
Decode(k) ==
  /\ Serving
  /\ AtStage(inflight[k], "decode")
  /\ \E name \in ConcurrentNames :
       inflight' = [inflight EXCEPT ![k] =
                      [Through(@, "decode") EXCEPT !.name = name,
                                                   !.args = ConcurrentArgs(name)]]
  /\ UNCHANGED <<entry, pc, modules, mcps, served, manager, sessions, lastReq,
                 lastResp, io, frames, shutdown, scripts>>

\* the dispatcher looks the name up; a name that is not registered, or a
\* call without a required argument, never gets to the storage
ResolveTool(k) ==
  /\ AtStage(inflight[k], "resolve")
  /\ LET t == inflight[k]
         h == resolve(mcps[served], t.name)
         stop == h = NotFound \/ ~(Required(h) \subseteq Given(t.args))
     IN inflight' = [inflight EXCEPT ![k] =
                       [Through(@, "resolve") EXCEPT !.handler = h,
                                                     !.skip = IF stop THEN {"read"} ELSE {}]]
  /\ UNCHANGED <<entry, pc, modules, mcps, served, manager, sessions, lastReq,
                 lastResp, io, frames, shutdown, scripts>>

\* the accessor reads the storage: df = pd.read_csv(...), resp = s3.list_buckets()
StorageRead(k) ==
  /\ AtStage(inflight[k], "read")
  /\ \E ans \in ConcurrentAnswers(inflight[k].name) :
       /\ frames' = [frames EXCEPT ![Cell(k)] = ans]
       /\ inflight' = [inflight EXCEPT ![k] = [Through(@, "read") EXCEPT !.ans = ans]]
  /\ UNCHANGED <<entry, pc, modules, mcps, served, manager, sessions, lastReq,
                 lastResp, io, shutdown, scripts>>

\* the handler returns or raises, from what its cell holds; the Result of a
\* call that was stopped at the lookup is the dispatcher's failure
HandlerResult(k) ==
  /\ AtStage(inflight[k], "result")
  /\ LET t == inflight[k]
     IN inflight' = [inflight EXCEPT ![k] =
                       [Through(@, "result") EXCEPT
                          !.result = invoke(mcps[served], t.name, t.args, frames[Cell(k)])]]
  /\ mcps' = [mcps EXCEPT ![served] = RegistryAfter(@, "tools/call", inflight[k].name)]
  /\ UNCHANGED <<entry, pc, modules, served, manager, sessions, lastReq, lastResp, io,
                 frames, shutdown, scripts>>

\* the adapter encodes the Result
Encode(k) ==
  /\ AtStage(inflight[k], "encode")
  /\ inflight' = [inflight EXCEPT ![k] =
                    [Through(@, "encode") EXCEPT
                       !.resp = Respond(0, k, <<>>, inflight[k].result, 0)]]
  /\ UNCHANGED <<entry, pc, modules, mcps, served, manager, sessions, lastReq,
                 lastResp, io, frames, shutdown, scripts>>

NextConcurrent ==
  \/ ImportServer
  \/ ImportCsvTools
  \/ ImportParquetTools
  \/ ImportS3Tools
  \/ Run
  \/ \E k \in Slots : Decode(k)
  \/ \E k \in Slots : ResolveTool(k)
  \/ \E k \in Slots : StorageRead(k)
  \/ \E k \in Slots : HandlerResult(k)
  \/ \E k \in Slots : Encode(k)

SpecConcurrent == InitConcurrent /\ [][NextConcurrent]_vars

----------------------------------------------------------------------------
(* The scripts around the server: mcp_proxy.py, lambda_handler.py,          *)
(* test_mcp_tools.py and the deploy scripts.  One script runs per           *)
(* behaviour; what its environment does (the lines on stdin, the outcome of *)
(* an HTTP call or of a subprocess) is drawn from small sets.               *)

PackagingScripts == {"deploy_minimal", "deploy_via_s3"}

DeployScripts == PackagingScripts \cup {"deploy_lambda"}

Scripts == {"mcp_proxy", "lambda_handler", "test_mcp_tools"} \cup DeployScripts

\* mcp_proxy.py ---------------------------------------------------------

\* the lines a client writes to the proxy's stdin
ProxyLines == {"{\"id\": 1}", "{\"id\": 2}", "oops"}
ProxyInputs == UNION {[1..n -> ProxyLines] : n \in 0..MaxLines}

\* json.loads(line): the request, or json.JSONDecodeError
json_loads(line) ==
  IF \E n \in 0..9 : line = "{\"id\": " \o ToString(n) \o "}"
  THEN [raised |-> FALSE,
        id |-> CHOOSE n \in 0..9 : line = "{\"id\": " \o ToString(n) \o "}"]
  ELSE [raised |-> TRUE, id |-> 0]

\* json.dumps(resp.json()) + "\n" for the server's response to request id
json_dumps(id) == "{\"jsonrpc\": \"2.0\", \"id\": " \o ToString(id) \o ", \"result\": {}}"

\* requests.post(...) and resp.json(): both work, the POST raises, or the
\* response body is not JSON and resp.json() raises
RelayOutcomes == {"ok", "post raises", "body not json"}

\* as ProxyLoadOutput, with the banner left out
ProxyLoadOutput_silent == <<>>

\* what the module writes to stdout when it is loaded: print("MCP proxy started")
ProxyLoadOutput == <<"MCP proxy started">>

\* as AfterDecodeError, with a break in the except branch
AfterDecodeError_break == "returned"

\* where main() is after json.JSONDecodeError: continue
AfterDecodeError == "loop"

\* as AfterRelayFailure, with the relay in a try whose except branch continues
AfterRelayFailure_continue == "loop"

\* where main() is after requests.post or resp.json() raised: nothing
\* catches the exception
AfterRelayFailure == "raised"

ProxyLoad ==
  /\ script = "mcp_proxy"
  /\ proxy.at = "load"
  /\ proxy' = [proxy EXCEPT !.at = "loop", !.output = @ \o ProxyLoadOutput]
  /\ UNCHANGED <<entry, pc, modules, mcps, served, manager, sessions, lastReq, lastResp, io,
                 tasks, shutdown, script, invocation, driver, package, deploy>>

\* one turn of "for line in sys.stdin"
ProxyLine ==
  /\ script = "mcp_proxy"
  /\ proxy.at = "loop"
  /\ proxy.read < Len(proxy.input)
  /\ LET req == json_loads(proxy.input[proxy.read + 1])
         taken == [proxy EXCEPT !.read = @ + 1]
     IN IF req.raised
        THEN proxy' = [taken EXCEPT !.relays = Append(@, "skipped"),
                                    !.at = AfterDecodeError]
        ELSE \E relay \in RelayOutcomes :
               proxy' = IF relay = "ok"
                        THEN [taken EXCEPT !.relays = Append(@, relay),
                                           !.output = Append(@, json_dumps(req.id))]
                        ELSE [taken EXCEPT !.relays = Append(@, relay),
                                           !.at = AfterRelayFailure]
  /\ UNCHANGED <<entry, pc, modules, mcps, served, manager, sessions, lastReq, lastResp, io,
                 tasks, shutdown, script, invocation, driver, package, deploy>>

\* end of file on stdin: the for loop ends and main() returns
ProxyEof ==
  /\ script = "mcp_proxy"
  /\ proxy.at = "loop"
  /\ proxy.read = Len(proxy.input)
  /\ proxy' = [proxy EXCEPT !.at = "returned"]
  /\ UNCHANGED <<entry, pc, modules, mcps, served, manager, sessions, lastReq, lastResp, io,
                 tasks, shutdown, script, invocation, driver, package, deploy>>

\* lambda_handler.py ----------------------------------------------------

\* handler(event, context): the adapter returns the application's response
\* (whatever its status), or raises
MangumResponses ==
  {[statusCode |-> 200, headers |-> {<<"content-type", "application/json">>},
    body |-> <<<<"text", "{\"status\":\"healthy\"}">>>>],
   [statusCode |-> 500, headers |-> {<<"content-type", "text/plain; charset=utf-8">>},
    body |-> <<<<"text", "Internal Server Error">>>>]}

MangumErrors ==
  {"The adapter was unable to infer a handler to use for the event.",
   "Event loop is closed"}

MangumOutcomes ==
  {[raised |-> FALSE, exc |-> "", value |-> r] : r \in MangumResponses}
    \cup {[raised |-> TRUE, exc |-> e, value |-> NoResponse] : e \in MangumErrors}

\* as lambda_handler, with an except branch that logs and re-raises
lambda_handler_reraising(out) ==
  IF out.raised THEN [raised |-> TRUE, exc |-> out.exc, value |-> NoResponse]
  ELSE [raised |-> FALSE, exc |-> "", value |-> out.value]

\* lambda_handler(event, context), given what handler(event, context) did
lambda_handler(out) ==
  IF out.raised
  THEN [raised |-> FALSE, exc |-> "",
        value |-> [statusCode |-> 500,
                   headers |-> {<<"Content-Type", "application/json">>,
                                <<"Access-Control-Allow-Origin", "*">>,
                                <<"Access-Control-Allow-Methods", "GET, POST, OPTIONS">>,
                                <<"Access-Control-Allow-Headers",
                                  "Content-Type, Authorization">>},
                   body |-> <<<<"error", "Internal server error">>,
                              <<"message", out.exc>>>>]]
  ELSE [raised |-> FALSE, exc |-> "", value |-> out.value]

\* the Lambda runtime calls lambda_handler with an event
LambdaInvoke ==
  /\ script = "lambda_handler"
  /\ \E out \in MangumOutcomes :
       invocation' = [at |-> "done", outcome |-> out, result |-> lambda_handler(out)]
  /\ UNCHANGED <<entry, pc, modules, mcps, served, manager, sessions, lastReq, lastResp, io,
                 tasks, shutdown, script, proxy, driver, package, deploy>>

\* test_mcp_tools.py ----------------------------------------------------

\* start_server(): the process when it is still running after the wait, None
\* when it has exited or when Popen raised
StartOutcomes == {"running", "exited", "Popen raises"}

start_server(o) == IF o = "running" THEN "running" ELSE "none"

\* the answers to the initialize request: status 200 with a result line and
\* the mcp-session-id header (sid = "" when the header is absent), status 200
\* without a result line, another status, or requests.post raising
SessionIds == {"", "s1", "s2"}

InitializeAnswers ==
  [kind : {"result", "no result", "status 500", "post raises"}, sid : SessionIds]

establish_session(ans) == IF ans.kind = "result" THEN ans.sid ELSE ""

\* as AfterSession, without the check of the session id
AfterSession_unchecked(session_id) == "list_buckets"

\* main after establish_session(): return (through finally) without an id
AfterSession(session_id) == IF session_id = "" THEN "finally" ELSE "list_buckets"

\* the request a test function sends; sid = "" is a request without the
\* mcp-session-id header
tool_request(tool_name, session_id) ==
  [method |-> "tools/call", name |-> tool_name, sid |-> session_id]

\* server_process = start_server(); sys.exit(1) without a process
DriverStart ==
  /\ script = "test_mcp_tools"
  /\ driver.at = "start"
  /\ \E o \in StartOutcomes :
       driver' = [driver EXCEPT !.server = start_server(o),
                                !.at = IF start_server(o) = "none" THEN "sys.exit" ELSE "session"]
  /\ UNCHANGED <<entry, pc, modules, mcps, served, manager, sessions, lastReq, lastResp, io,
                 tasks, shutdown, script, proxy, invocation, package, deploy>>

\* session_id = establish_session(); if not session_id: return
DriverSession ==
  /\ script = "test_mcp_tools"
  /\ driver.at = "session"
  /\ \E ans \in InitializeAnswers :
       driver' = [driver EXCEPT
                    !.posts = Append(@, [method |-> "initialize", name |-> "", sid |-> ""]),
                    !.session_id = establish_session(ans),
                    !.at = AfterSession(establish_session(ans))]
  /\ UNCHANGED <<entry, pc, modules, mcps, served, manager, sessions, lastReq, lastResp, io,
                 tasks, shutdown, script, proxy, invocation, package, deploy>>

\* the two tests, in order; each catches every Exception and returns a bool
DriverTest ==
  /\ script = "test_mcp_tools"
  /\ driver.at \in {"list_buckets", "summarize_csv_file"}
  /\ driver' = [driver EXCEPT
                  !.posts = Append(@, tool_request(driver.at, driver.session_id)),
                  !.at = IF driver.at = "list_buckets" THEN "summarize_csv_file"
                         ELSE "finally"]
  /\ UNCHANGED <<entry, pc, modules, mcps, served, manager, sessions, lastReq, lastResp, io,
                 tasks, shutdown, script, proxy, invocation, package, deploy>>

\* an exception that is not caught inside the try block (KeyboardInterrupt)
DriverInterrupt ==
  /\ script = "test_mcp_tools"
  /\ driver.at \in {"session", "list_buckets", "summarize_csv_file"}
  /\ driver' = [driver EXCEPT !.at = "finally"]
  /\ UNCHANGED <<entry, pc, modules, mcps, served, manager, sessions, lastReq, lastResp, io,
                 tasks, shutdown, script, proxy, invocation, package, deploy>>

\* finally: if server_process: terminate(); wait()
DriverFinallyServer(d) == IF d.server = "running" THEN "terminated" ELSE d.server

DriverFinally ==
  /\ script = "test_mcp_tools"
  /\ driver.at = "finally"
  /\ driver' = [driver EXCEPT !.server = DriverFinallyServer(driver), !.at = "exit"]
  /\ UNCHANGED <<entry, pc, modules, mcps, served, manager, sessions, lastReq, lastResp, io,
                 tasks, shutdown, script, proxy, invocation, package, deploy>>

\* deploy_minimal.py, deploy_via_s3.py: the deployment package -----------

\* package.dir: lambda_deployment_temp exists; package.rmtree: "failed" once
\* a shutil.rmtree call raised; package.ret: "None" or "zip_path"
FsOutcomes == {"ok", "raises"}

\* the try block: a copy raising, the install's exit status being nonzero
\* (return None), the zip step raising, or return zip_path
BodyOutcomes == {"copy raises", "install fails", "zip raises", "zipped"}

\* as CleanupRuns, with the clean-up at the end of the try block instead of
\* in a finally clause
CleanupRuns_at_end(bodyOutcome) == bodyOutcome = "zipped"

\* the finally clause runs on every exit of the try block
CleanupRuns(bodyOutcome) == TRUE

\* temp_dir = ...; if os.path.exists(temp_dir): shutil.rmtree(temp_dir);
\* os.makedirs(temp_dir): before the try block
PackageSetup ==
  /\ script \in PackagingScripts
  /\ package.at = "start"
  /\ \E rm \in FsOutcomes, mk \in FsOutcomes :
       package' =
         IF package.dir /\ rm = "raises"
         THEN [package EXCEPT !.at = "raised", !.raised = TRUE, !.rmtree = "failed"]
         ELSE IF mk = "raises"
         THEN [package EXCEPT !.at = "raised", !.raised = TRUE, !.dir = FALSE]
         ELSE [package EXCEPT !.at = "try", !.dir = TRUE]
  /\ UNCHANGED <<entry, pc, modules, mcps, served, manager, sessions, lastReq, lastResp, io,
                 tasks, shutdown, script, proxy, invocation, driver, deploy>>

\* the try block up to its return or its exception
PackageBody ==
  /\ script \in PackagingScripts
  /\ package.at = "try"
  /\ \E o \in BodyOutcomes :
       package' = [package EXCEPT
                     !.at = "finally",
                     !.body = o,
                     !.ret = CASE o = "install fails" -> "None"
                               [] o = "zipped" -> "zip_path"
                               [] OTHER -> "",
                     !.raised = o \in {"copy raises", "zip raises"}]
  /\ UNCHANGED <<entry, pc, modules, mcps, served, manager, sessions, lastReq, lastResp, io,
                 tasks, shutdown, script, proxy, invocation, driver, deploy>>

\* finally: if os.path.exists(temp_dir): shutil.rmtree(temp_dir); an
\* exception of rmtree replaces the return value or the pending exception
PackageFinally ==
  /\ script \in PackagingScripts
  /\ package.at = "finally"
  /\ \E rm \in FsOutcomes :
       package' =
         IF ~(CleanupRuns(package.body) /\ package.dir)
         THEN [package EXCEPT !.at = IF package.raised THEN "raised" ELSE "returned"]
         ELSE IF rm = "raises"
         THEN [package EXCEPT !.at = "raised", !.raised = TRUE, !.ret = "",
                              !.rmtree = "failed"]
         ELSE [package EXCEPT !.at = IF package.raised THEN "raised" ELSE "returned",
                              !.dir = FALSE]
  /\ UNCHANGED <<entry, pc, modules, mcps, served, manager, sessions, lastReq, lastResp, io,
                 tasks, shutdown, script, proxy, invocation, driver, deploy>>

\* deploy_minimal.py, deploy_via_s3.py, deploy_lambda.py: the deploy step --

\* what precedes the code update inside the try block: nothing in
\* deploy_minimal.py, the S3 upload in deploy_via_s3.py, the client and the
\* read of the zip file in deploy_lambda.py
PrepareOutcomes(s) == IF s = "deploy_minimal" THEN {"ok"} ELSE {"ok", "raises"}

\* an update: the aws command exits with status 0 ("ok") or another status
\* ("fails"), or subprocess.run raises; a boto3 update returns or raises
UpdateOutcomes(s) == IF s = "deploy_lambda" THEN {"ok", "raises"} ELSE {"ok", "fails", "raises"}

\* as deploy_return, with False for a configuration update that failed
deploy_return_strict(code, config) ==
  IF code = "ok" /\ config = "ok" THEN "True" ELSE "False"

\* the return value, given the outcome of the code update and, after a
\* successful code update, of the configuration update
deploy_return(code, config) ==
  IF code = "ok" /\ config \in {"ok", "fails"} THEN "True" ELSE "False"

\* main: the deploy step is called with a zip path
DeployBegin ==
  /\ script \in DeployScripts
  /\ deploy.at = "idle"
  /\ script \in PackagingScripts => (package.at = "returned" /\ package.ret = "zip_path")
  /\ \E o \in PrepareOutcomes(script) :
       deploy' = IF o = "ok"
                 THEN [deploy EXCEPT !.at = "code", !.prepare = o]
                 ELSE [deploy EXCEPT !.at = "returned", !.prepare = o, !.ret = "False"]
  /\ UNCHANGED <<entry, pc, modules, mcps, served, manager, sessions, lastReq, lastResp, io,
                 tasks, shutdown, script, proxy, invocation, driver, package>>

\* update-function-code
DeployCode ==
  /\ script \in DeployScripts
  /\ deploy.at = "code"
  /\ \E o \in UpdateOutcomes(script) :
       deploy' = IF o = "ok"
                 THEN [deploy EXCEPT !.at = "config", !.code = o,
                                     !.calls = Append(@, "update-function-code")]
                 ELSE [deploy EXCEPT !.at = "returned", !.code = o,
                                     !.calls = Append(@, "update-function-code"),
                                     !.ret = deploy_return(o, "")]
  /\ UNCHANGED <<entry, pc, modules, mcps, served, manager, sessions, lastReq, lastResp, io,
                 tasks, shutdown, script, proxy, invocation, driver, package>>

\* update-function-configuration, and the return
DeployConfig ==
  /\ script \in DeployScripts
  /\ deploy.at = "config"
  /\ \E o \in UpdateOutcomes(script) :
       deploy' = [deploy EXCEPT !.at = "returned", !.config = o,
                                !.calls = Append(@, "update-function-configuration"),
                                !.ret = deploy_return(deploy.code, o)]
  /\ UNCHANGED <<entry, pc, modules, mcps, served, manager, sessions, lastReq, lastResp, io,
                 tasks, shutdown, script, proxy, invocation, driver, package>>

\* the scripts ----------------------------------------------------------

InitScripts ==
  /\ entry = "none"
  /\ pc = 1
  /\ modules = {}
  /\ mcps = [i \in Instances |-> <<>>]
  /\ served = "none"
  /\ manager = "off"
  /\ sessions = {}
  /\ lastReq = NoReq
  /\ lastResp = NoResp
  /\ stdin = <<>>
  /\ stdout = <<>>
  /\ inflight = [k \in 1..MaxInflight |-> NoTask]
  /\ frames = [k \in 1..MaxInflight |-> Unread]
  /\ shutdown = NotStopped
  /\ script \in Scripts
  /\ IF script = "mcp_proxy"
     THEN \E input \in ProxyInputs : proxy = [IdleProxy EXCEPT !.at = "load", !.input = input]
     ELSE proxy = IdleProxy
  /\ invocation = IdleInvocation
  /\ driver = IF script = "test_mcp_tools" THEN [IdleDriver EXCEPT !.at = "start"]
              ELSE IdleDriver
  /\ IF script \in PackagingScripts
     THEN \E d \in BOOLEAN : package = [IdlePackage EXCEPT !.at = "start", !.dir = d]
     ELSE package = IdlePackage
  /\ deploy = IdleDeploy

NextScripts ==
  \/ ProxyLoad
  \/ ProxyLine
  \/ ProxyEof
  \/ LambdaInvoke
  \/ DriverStart
  \/ DriverSession
  \/ DriverTest
  \/ DriverInterrupt
  \/ DriverFinally
  \/ PackageSetup
  \/ PackageBody
  \/ PackageFinally
  \/ DeployBegin
  \/ DeployCode
  \/ DeployConfig

SpecScripts == InitScripts /\ [][NextScripts]_vars

----------------------------------------------------------------------------
(* Properties *)

CatalogOrder ==
  <<"summarize_csv_file", "read_csv_file_data", "summarize_parquet_file",
    "read_csv_file_data_s3", "list_buckets">>

ToolsImported == {"csv_tools", "parquet_tools", "s3_tools"} \subseteq modules

Called == lastReq.method = "tools/call" /\ lastResp.kind = "answered"

\* the call reached the handler of a registered tool
Reached == Called /\ lastResp.result.handlerCalls > 0

WellFormed == Required(lastReq.name) \subseteq Given(lastReq.args)

\* the registry once the three tool modules have run
LoadedRegistry == s3_tools(parquet_tools(csv_tools(<<>>)))

\* the positions of a sequence of messages that carry the id
WithId(msgs, id) == {i \in 1..Len(msgs) : msgs[i].id = id}

\* C1: once fastapi_server has finished loading, the instance mounted at
\* /mcp has the five tools registered, and an answered tools/list returns
\* exactly those five descriptors.
C1_MountedInstanceHasFiveTools ==
  (entry = "fastapi_server" /\ Serving) =>
    /\ {mcps[served][i].name : i \in 1..Len(mcps[served])} = Catalog
    /\ Len(mcps[served]) = 5
    /\ (lastReq.method = "tools/list" /\ lastResp.kind = "answered") =>
         Names(lastResp.tools) = CatalogOrder

\* C2: after the tools package is imported, list() on the shared registry
\* returns exactly 5 descriptors, one per tool function, each with a
\* non-empty name and a non-empty description; the direct list_tools() call
\* of the configuration test returns that list.
C2_SharedRegistryListsFive ==
  ToolsImported =>
    LET l == list(mcps["server"]) IN
      /\ Len(l) = 5
      /\ {l[i].handler : i \in 1..Len(l)} = Catalog
      /\ \A i \in 1..Len(l) :
           l[i].name = l[i].handler /\ l[i].name # "" /\ l[i].description # ""
      /\ lastReq.method = "list_tools" => lastResp.tools = l

C2_Witness ==
  /\ entry = "test_config"
  /\ lastReq.method = "list_tools"
  /\ Len(lastResp.tools) = 5

\* C3: a call of a name that is not in the served registry, with any
\* argument mapping, ends in a "tool not found" failure Result, calls no
\* handler and enters no storage accessor.
C3_UnknownToolFails ==
  (Called /\ Position(mcps[served], lastReq.name) = 0) =>
    /\ lastResp.result.kind = "failure"
    /\ StartsWith(lastResp.result.payload, "tool not found")
    /\ lastResp.result.handlerCalls = 0
    /\ lastResp.result.calls = <<>>

C3_Witness ==
  /\ Called
  /\ entry = "main"
  /\ lastReq.name = "nonexistent_tool"
  /\ lastReq.args # {}
  /\ lastResp.result.kind = "failure"

\* C4: when the file read behind one of the three local-file tools raises,
\* the handler raises that exception (it returns no string), the Result is
\* a failure whose payload is the exception's message, and the handler was
\* called exactly once.
C4_LocalReadFailurePropagates ==
  (Called /\ lastReq.name \in LocalTools /\ WellFormed
     /\ Position(mcps[served], lastReq.name) # 0 /\ lastReq.ans.st # "ok") =>
    /\ lastResp.result.kind = "failure"
    /\ lastResp.result.payload = ExcMessage(lastReq.ans.st)
    /\ lastResp.result.handlerCalls = 1
    /\ Len(lastResp.result.calls) = 1

C4_Witness ==
  /\ Called
  /\ lastReq.name = "summarize_csv_file"
  /\ lastReq.ans.st = "missing"
  /\ lastResp.result.kind = "failure"
  /\ lastResp.result.handlerCalls = 1

\* C5: when the remote read fails, read_csv_from_s3 returns (the call ends
\* in a success, nothing was raised) the string "Error reading S3 file: "
\* followed by the exception's message, for every path.
C5_S3ReadFailureIsReturned ==
  (Reached /\ lastReq.name = "read_csv_file_data_s3" /\ lastReq.ans.st # "ok") =>
    /\ lastResp.result.kind = "success"
    /\ StartsWith(lastResp.result.payload, "Error reading S3 file:")
    /\ lastResp.result.payload = "Error reading S3 file: " \o ExcMessage(lastReq.ans.st)
    /\ lastResp.result.calls = <<"read_csv_from_s3">>

C5_Witness ==
  /\ Reached
  /\ lastReq.name = "read_csv_file_data_s3"
  /\ lastReq.ans.st = "denied"
  /\ StartsWith(lastResp.result.payload, "Error reading S3 file: Access Denied")

\* C6: every call of one of the two remote-storage tools, made with the
\* tool's arguments and not turned away for its session identifier, ends in
\* a success Result whatever the storage answers.
C6_RemoteToolsAlwaysSucceed ==
  (lastReq.method = "tools/call" /\ lastReq.name \in RemoteTools /\ WellFormed
     /\ lastResp.http # 400) =>
    lastResp.result.kind = "success"

C9_ListInImportOrder ==
  ToolsImported =>
    /\ Names(list(mcps[ToolsMcp])) = CatalogOrder
    /\ (lastReq.method \in {"tools/list", "list_tools"} /\ lastResp.kind = "answered"
          /\ ServedMcp(entry) = ToolsMcp) => Names(lastResp.tools) = CatalogOrder

C9_Witness ==
  /\ lastReq.method = "tools/list"
  /\ lastResp.kind = "answered"
  /\ Names(lastResp.tools) = CatalogOrder

\* C10: once the tool modules are loaded and the server is serving, no
\* initialize, tools/list or tools/call, successful or failing, changes a
\* registry.
C10_RegistryReadOnly == [][Serving => mcps' = mcps]_vars

C10_Witness ==
  /\ Serving
  /\ sessions # {}
  /\ Called
  /\ lastResp.result.kind = "failure"
  /\ Names(mcps["server"]) = CatalogOrder

\* C14: for a well-formed local file of N data rows and M columns,
\* read_csv_summary(filename) returns exactly the sentence
\* "CSV file '<filename>' has N rows and M columns.", which is the payload of
\* the success Result of summarize_csv_file.
C14_CsvSummarySentence ==
  (Reached /\ lastReq.name = "summarize_csv_file" /\ lastReq.ans.st = "ok") =>
    /\ lastResp.result.kind = "success"
    /\ lastResp.result.payload =
         "CSV file '" \o Arg(lastReq.args, "filename") \o "' has "
           \o ToString(lastReq.ans.rows) \o " rows and "
           \o ToString(lastReq.ans.cols) \o " columns."
    /\ (lastReq.ans.rows = 2 /\ lastReq.ans.cols = 1) =>
         lastResp.result.payload = "CSV file 'sample.csv' has 2 rows and 1 columns."

C14_Witness ==
  /\ Reached
  /\ lastReq.name = "summarize_csv_file"
  /\ lastReq.ans = Table(2, 1)
  /\ lastResp.result.payload = "CSV file 'sample.csv' has 2 rows and 1 columns."

\* the line df.head() prints for row i of a frame of m columns
RowLine(i, m) == ToString(i) \o " x" \o ToString(m)

\* the lines of a payload that are rows of the table
PreviewRows(payload, table) ==
  LET IsRow(l) == l \in {RowLine(i, table.cols) : i \in 0..(table.rows - 1)}
  IN SelectSeq(SplitLines(payload), IsRow)

\* C19: for a well-formed local file of N rows and M columns read_csv_data
\* returns a string that contains the sentence read_csv_summary returns for
\* the same file, followed by a preview of the first min(N, 5) rows and no
\* other row; summarize_parquet_file reports N and M in the sentence of the
\* CSV summary with "Parquet" for "CSV", and ends in a failure when the file
\* is missing or malformed.
C19_DataPreviewAndParquetSummary ==
  /\ (Reached /\ lastReq.name = "read_csv_file_data" /\ lastReq.ans.st = "ok") =>
       LET f == Arg(lastReq.args, "filename")
           sentence == read_csv_summary(f, lastReq.ans).value
       IN /\ lastResp.result.kind = "success"
          /\ Contains(lastResp.result.payload, sentence)
          /\ PreviewRows(lastResp.result.payload, lastReq.ans) =
               [i \in 1..Min(lastReq.ans.rows, 5) |-> RowLine(i - 1, lastReq.ans.cols)]
  /\ (Reached /\ lastReq.name = "summarize_parquet_file") =>
       LET f == Arg(lastReq.args, "filename")
           sentence == read_csv_summary(f, lastReq.ans).value
       IN IF lastReq.ans.st = "ok"
          THEN /\ lastResp.result.kind = "success"
               /\ lastResp.result.payload =
                    "Parquet" \o SubSeq(sentence, Len("CSV") + 1, Len(sentence))
               /\ Contains(lastResp.result.payload,
                           "has " \o ToString(lastReq.ans.rows) \o " rows and "
                             \o ToString(lastReq.ans.cols) \o " columns.")
          ELSE /\ lastResp.result.kind = "failure"
               /\ lastReq.ans.st \in {"missing", "malformed"}

C19_Witness ==
  /\ Reached
  /\ lastReq.name = "read_csv_file_data"
  /\ lastReq.ans = Table(6, 2)
  /\ Len(PreviewRows(lastResp.result.payload, lastReq.ans)) = 5
  /\ Contains(lastResp.result.payload, "CSV file 'sample.csv' has 6 rows and 2 columns.")

\* the lines of a payload that are entries of a listing
EntryLines(payload) ==
  LET IsEntry(l) == StartsWith(l, "- ") IN SelectSeq(SplitLines(payload), IsEntry)

\* C15: when the storage reports k containers, list_all_the_buckets returns
\* a string whose first line states "Found k S3 buckets" and whose entry
\* lines are exactly the k lines "- <name>", one per container, in the order
\* the storage returned them; for k = 0 the string states "Found 0 S3
\* buckets" and has no entry line.
C15_BucketListing ==
  (Reached /\ lastReq.name = "list_buckets" /\ lastReq.ans.st = "ok") =>
    LET names == lastReq.ans.names
        k == Len(names)
        payload == lastResp.result.payload
    IN /\ lastResp.result.kind = "success"
       /\ SplitLines(payload)[1] = "Found " \o ToString(k) \o " S3 buckets:"
       /\ EntryLines(payload) = [i \in 1..k |-> "- " \o names[i]]
       /\ Len(SplitLines(payload)) = IF k = 0 THEN 2 ELSE k + 1
       /\ k = 0 => /\ StartsWith(payload, "Found 0 S3 buckets")
                   /\ ~Contains(payload, "- ")

C15_Witness ==
  /\ Reached
  /\ lastReq.name = "list_buckets"
  /\ lastReq.ans.names = <<"beta", "alpha">>
  /\ lastResp.result.payload = "Found 2 S3 buckets:\n- beta\n- alpha"

\* a listing of no container was read
C15_WitnessEmpty ==
  /\ Reached
  /\ lastReq.name = "list_buckets"
  /\ lastReq.ans = Listing(<<>>)
  /\ lastResp.result.payload = "Found 0 S3 buckets:\n"

LocalEntryPoints == {"main", "simple_mcp_server"}

\* C20: in main.py and simple_mcp_server.py the five tools are registered
\* when mcp.run() starts: from then on the served registry holds the five
\* tools, every answered tools/list returns the five descriptors and no
\* answered tools/call of a catalog tool ends in "tool not found".
C20_RegistryFullBeforeRun ==
  (entry \in LocalEntryPoints /\ served # "none") =>
    /\ ToolsImported
    /\ Names(mcps[served]) = CatalogOrder
    /\ (lastReq.method = "tools/list" /\ lastResp.kind = "answered") =>
         Names(lastResp.tools) = CatalogOrder
    /\ (Called /\ lastReq.name \in Catalog /\ WellFormed) =>
         lastResp.result.handlerCalls = 1

C20_Witness ==
  /\ entry = "main"
  /\ lastReq.method = "tools/list"
  /\ lastResp.kind = "answered"
  /\ Len(lastResp.tools) = 5

\* C17: every GET /health on the FastAPI application, whatever was handled
\* before it (failed tool calls included), is answered with HTTP 200 and the
\* object {status: "healthy", service: "S3 CSV Analysis MCP Server"}, and
\* leaves the registries, the sessions, the session manager and the loaded
\* modules as they were.
C17_HealthAlwaysHealthy ==
  [][lastReq'.method = "GET /health" =>
       /\ lastResp'.http = 200
       /\ lastResp'.body =
            <<<<"status", "healthy">>, <<"service", "S3 CSV Analysis MCP Server">>>>
       /\ UNCHANGED <<entry, pc, modules, mcps, served, manager, sessions>>]_vars

C17_Witness ==
  /\ entry = "fastapi_server"
  /\ lastReq.method = "GET /health"
  /\ lastResp.http = 200
  /\ lastResp.body[1] = <<"status", "healthy">>

\* C18: on fastapi_server a tools/list posted to /mcp with no session
\* identifier, whether or not an initialize came before it, is answered with
\* HTTP 200 and a result.
C18_StatelessToolsListSucceeds ==
  (entry = "fastapi_server" /\ lastReq.method = "tools/list" /\ lastReq.sid = 0) =>
    /\ lastResp.http = 200
    /\ lastResp.kind = "answered"

Invocation(req) == <<req.name, req.args, req.ans>>

\* C12: the Result of a tool invocation is the one the loaded registry gives
\* for its tool name, its arguments and the storage's answer at that moment,
\* whatever was handled before it: two invocations with the same name,
\* arguments and storage answer get the same Result wherever they stand in
\* the run.
C12_ResultIndependentOfHistory ==
  /\ \A i \in 1..Len(stdin) :
       stdin[i].method = "tools/call" =>
         /\ i <= Len(stdout)
         /\ stdout[i].result =
              invoke(LoadedRegistry, stdin[i].name, stdin[i].args, stdin[i].ans)
  /\ \A i, j \in 1..Len(stdin) :
       (/\ stdin[i].method = "tools/call" /\ stdin[j].method = "tools/call"
        /\ Invocation(stdin[i]) = Invocation(stdin[j])
        /\ i <= Len(stdout) /\ j <= Len(stdout)) =>
         stdout[i].result = stdout[j].result

C12_Witness ==
  /\ Len(stdin) = 3
  /\ stdin[1].method = "tools/call" /\ stdin[3].method = "tools/call"
  /\ Invocation(stdin[1]) = Invocation(stdin[3])
  /\ stdin[1].ans = Table(1, 1)
  /\ stdin[2].method = "tools/call" /\ stdin[2].ans = Broken("missing")
  /\ stdout[2].result.kind = "failure"
  /\ stdout[1].result.kind = "success"
  /\ stdout[3].result = stdout[1].result

Did(t, stage) == \E i \in 1..Len(t.trail) : t.trail[i] = stage

IsPrefix(a, b) == Len(a) <= Len(b) /\ a = SubSeq(b, 1, Len(a))

\* C13: in every interleaving of the steps of invocations handled at the
\* same time, the Result of each invocation is the one it gets when it runs
\* alone: the Result the registry gives for its name, its arguments and the
\* answer the storage gave to its own read; and no step writes the registry.
C13_InterleavingsAgreeWithSequential ==
  /\ \A k \in Slots :
       Did(inflight[k], "result") =>
         inflight[k].result =
           invoke(LoadedRegistry, inflight[k].name, inflight[k].args, inflight[k].ans)
  /\ served # "none" => mcps[served] = LoadedRegistry

\* invocation 2 read the storage and got its Result while invocation 1,
\* of the same tool, was between its read and its Result
C13_Witness ==
  /\ inflight[1].trail = <<"decode", "resolve", "read">>
  /\ inflight[1].name = "summarize_csv_file"
  /\ inflight[1].ans = Table(1, 1)
  /\ inflight[2].name = "summarize_csv_file"
  /\ inflight[2].ans = Broken("missing")
  /\ Did(inflight[2], "result")
  /\ inflight[2].result.kind = "failure"

\* C16: every handled message goes through decode, resolve, storage read,
\* result, encode in this order (a call stopped at the lookup skips the
\* read): the storage was read only for a resolved, registered tool, a
\* Result exists only after the read of a call that reads, and the response
\* is encoded only from the Result the handler's return or raise produced.
C16_StagesInOrder ==
  \A k \in Slots :
    LET t == inflight[k] IN
      /\ \/ IsPrefix(t.trail, <<"decode", "resolve", "read", "result", "encode">>)
         \/ IsPrefix(t.trail, <<"decode", "resolve", "result", "encode">>)
      /\ (Did(t, "read") \/ t.ans # Unread) =>
           /\ Did(t, "resolve")
           /\ t.handler \in Catalog
           /\ t.handler = t.name
      /\ (Did(t, "result") /\ t.result.handlerCalls > 0) => Did(t, "read")
      /\ Did(t, "result") <=> t.result # NoResult
      /\ IF Did(t, "encode")
         THEN Did(t, "result") /\ t.resp.kind = "answered" /\ t.resp.result = t.result
         ELSE t.resp = NoResp

C16_Witness ==
  /\ inflight[1].trail = <<"decode", "resolve", "read", "result", "encode">>
  /\ inflight[1].resp.result.kind = "success"
  /\ inflight[2].trail = <<"decode", "resolve", "result", "encode">>
  /\ inflight[2].resp.result.kind = "failure"

\* C21: when a request to /mcp is handled by the FastAPI application, under
\* uvicorn as under the Lambda adapter, the lifespan has started the MCP
\* session manager.
C21_LifespanStartsSessionManager ==
  (entry \in FastApiEntryPoints
     /\ lastReq.method \in {"initialize", "tools/list", "tools/call"}) =>
    manager = "running"

\* C30: every call that reaches one of the two S3 wrappers, whatever the
\* storage answers, ends in a success whose payload is a string, entered the
\* accessor once, and logged the wrapper's success line; when the storage
\* read failed the string is the accessor's "Error ..." message: the
\* wrappers' except branches are never taken.
C30_S3WrappersNeverRaise ==
  (Reached /\ lastReq.name \in RemoteTools) =>
    LET path == IF lastReq.name = "list_buckets" THEN ""
                ELSE Arg(lastReq.args, "filepath")
    IN /\ lastResp.result.kind = "success"
       /\ Len(lastResp.result.calls) = 1
       /\ StartsWith(s3_tools_log(lastReq.name, path, lastReq.ans), "Successfully")
       /\ lastReq.ans.st # "ok" =>
            /\ StartsWith(lastResp.result.payload, "Error ")
            /\ Contains(lastResp.result.payload, ExcMessage(lastReq.ans.st))

C30_Witness ==
  /\ Reached
  /\ lastReq.name = "list_buckets"
  /\ lastReq.ans.st = "denied"
  /\ lastResp.result.kind = "success"
  /\ lastResp.result.payload = "Error listing S3 buckets: Access Denied"

\* C26: whenever main() of main.py is left, its last log line is "Server
\* shutdown complete"; after a KeyboardInterrupt main() returns and has
\* logged "Server stopped by user"; after any other Exception it has logged
\* the error and the exception leaves main(); when mcp.run() returns, main()
\* returns.
C26_ShutdownLoggedOnEveryExit ==
  shutdown.outcome # "running" =>
    /\ shutdown.logs # <<>>
    /\ shutdown.logs[Len(shutdown.logs)] = "Server shutdown complete"
    /\ Cardinality({i \in 1..Len(shutdown.logs) :
                      shutdown.logs[i] = "Server shutdown complete"}) = 1
    /\ shutdown.outcome = "KeyboardInterrupt" =>
         ~shutdown.raised /\ shutdown.logs[1] = "Server stopped by user"
    /\ shutdown.outcome = "Exception" =>
         shutdown.raised /\ StartsWith(shutdown.logs[1], "Server error: ")
    /\ shutdown.outcome = "returned" => ~shutdown.raised
    /\ served = "none"

C26_Witness ==
  /\ shutdown.outcome = "Exception"
  /\ shutdown.raised
  /\ shutdown.logs = <<"Server error: Exception", "Server shutdown complete">>
  /\ Len(stdin) > 0

\* the lines of the proxy's input read so far that parse as JSON
ParsedSoFar == SelectSeq(SubSeq(proxy.input, 1, proxy.read),
                         LAMBDA l : ~json_loads(l).raised)

\* the lines the proxy wrote after the banner
ProxyReplies == SubSeq(proxy.output, 2, Len(proxy.output))

ProxyStarted == script = "mcp_proxy" /\ proxy.at \in {"loop", "returned", "raised"}

\* C23 as claimed: the proxy has written exactly one line for every input
\* line read so far that parses as JSON, in input order, and none for the
\* others.
C23_OneLinePerJsonLine ==
  ProxyStarted =>
    ProxyReplies = [k \in 1..Len(ParsedSoFar) |-> json_dumps(json_loads(ParsedSoFar[k]).id)]

\* C23: as long as no relay has failed, the proxy has written, after its
\* banner, exactly one line for every input line read so far that parses as
\* JSON, in input order, and none for a line that does not parse; a line
\* that does not parse does not end the loop; main() returns only at the end
\* of stdin, with every line read.
C23_OneLinePerRelayedJsonLine ==
  ProxyStarted =>
    /\ proxy.at # "raised" =>
         ProxyReplies =
           [k \in 1..Len(ParsedSoFar) |-> json_dumps(json_loads(ParsedSoFar[k]).id)]
    /\ proxy.at = "returned" => proxy.read = Len(proxy.input)
    /\ \A k \in 1..Len(proxy.relays) :
         proxy.relays[k] = "skipped" <=> json_loads(proxy.input[k]).raised

C23_Witness ==
  /\ script = "mcp_proxy"
  /\ proxy.at = "returned"
  /\ proxy.input = <<"{\"id\": 2}", "oops", "{\"id\": 1}">>
  /\ Len(proxy.output) = 3
  /\ proxy.output[2] = json_dumps(2)
  /\ proxy.output[3] = json_dumps(1)

\* C24: a relay whose POST raises, or whose response body is not JSON, is
\* the last thing the proxy does: the exception leaves main(), no line was
\* written for that request, and from then on neither a line is read nor a
\* line is written.
C24_FailedRelayEndsProxy ==
  /\ [](script = "mcp_proxy" =>
          /\ \A k \in 1..Len(proxy.relays) :
               proxy.relays[k] \in {"post raises", "body not json"} =>
                 /\ k = Len(proxy.relays)
                 /\ proxy.at = "raised"
                 /\ proxy.read = k
          /\ Len(ProxyReplies) =
               Cardinality({k \in 1..Len(proxy.relays) : proxy.relays[k] = "ok"}))
  /\ [][proxy.at = "raised" => proxy' = proxy]_vars

C24_Witness ==
  /\ script = "mcp_proxy"
  /\ proxy.at = "raised"
  /\ proxy.relays = <<"ok", "body not json">>
  /\ Len(proxy.input) = 3
  /\ proxy.read = 2
  /\ Len(proxy.output) = 2

\* C25: once the proxy module is loaded, the first line of its stdout is
\* "MCP proxy started", which does not parse as JSON; it is there before
\* any line of stdin was read.
C25_BannerFirst ==
  script = "mcp_proxy" =>
    /\ proxy.at = "load" => proxy.read = 0 /\ proxy.output = <<>>
    /\ proxy.at # "load" =>
         /\ proxy.output # <<>>
         /\ proxy.output[1] = "MCP proxy started"
         /\ json_loads(proxy.output[1]).raised
         /\ \E k \in 1..Len(proxy.output) : json_loads(proxy.output[k]).raised

C25_Witness ==
  /\ script = "mcp_proxy"
  /\ proxy.at = "loop"
  /\ proxy.read = 0
  /\ proxy.input # <<>>
  /\ proxy.output = <<"MCP proxy started">>

\* C22: lambda_handler never raises: when the adapter returned a response,
\* that response is returned as it is; when the adapter raised an Exception,
\* the return value has statusCode 500, the four CORS headers, and a body
\* with error "Internal server error" and the exception's message.
C22_LambdaHandlerNeverRaises ==
  (script = "lambda_handler" /\ invocation.at = "done") =>
    /\ ~invocation.result.raised
    /\ IF ~invocation.outcome.raised
       THEN invocation.result.value = invocation.outcome.value
       ELSE LET r == invocation.result.value IN
            /\ r.statusCode = 500
            /\ {h[1] : h \in r.headers} =
                 {"Content-Type", "Access-Control-Allow-Origin",
                  "Access-Control-Allow-Methods", "Access-Control-Allow-Headers"}
            /\ <<"Access-Control-Allow-Origin", "*">> \in r.headers
            /\ r.body = <<<<"error", "Internal server error">>,
                          <<"message", invocation.outcome.exc>>>>

C22_Witness ==
  /\ script = "lambda_handler"
  /\ invocation.at = "done"
  /\ invocation.outcome.raised
  /\ invocation.result.value.statusCode = 500
  /\ invocation.result.value.body[2] = <<"message", "Event loop is closed">>

C28_TempDirNeverRemains ==
  (script \in PackagingScripts /\ package.at \in {"returned", "raised"}) => ~package.dir

\* C28, amended: the directory lambda_deployment_temp does not exist after
\* the function has returned or raised, on every exit path (success, the
\* dependency install failing with return value None, an exception),
\* unless a shutil.rmtree call itself raised; the function returns only
\* after a successful removal.
C28_TempDirRemovedUnlessRmtreeFails ==
  script \in PackagingScripts =>
    /\ (package.at \in {"returned", "raised"} /\ package.rmtree = "ok") => ~package.dir
    /\ package.at = "returned" =>
         /\ ~package.dir
         /\ package.ret = (IF package.body = "zipped" THEN "zip_path" ELSE "None")

C28_Witness ==
  /\ script \in PackagingScripts
  /\ package.at = "raised"
  /\ package.body = "copy raises"
  /\ package.rmtree = "ok"
  /\ ~package.dir

\* C29 as stated: the function configuration is updated only after the code
\* update succeeded, the deploy step returns True whenever the code update
\* succeeded, and False only when the code update failed or an exception
\* was raised.
C29_TrueWheneverCodeUpdated ==
  (script \in DeployScripts /\ deploy.at = "returned") =>
    /\ deploy.config # "" => deploy.code = "ok"
    /\ deploy.code = "ok" => deploy.ret = "True"
    /\ deploy.ret = "False" =>
         \/ deploy.code = "fails"
         \/ "raises" \in {deploy.prepare, deploy.code, deploy.config}

\* C29, amended: the configuration update is requested only after the code
\* update succeeded; the deploy step returns True exactly when the code
\* update succeeded and the configuration update did not raise (a nonzero
\* exit status of the configuration command still gives True), and False
\* when the code update failed or an exception was raised, which in
\* deploy_lambda.py includes every failure of the configuration update.
C29_TrueUnlessCodeFailsOrRaises ==
  script \in DeployScripts =>
    /\ \A i \in DOMAIN deploy.calls :
         deploy.calls[i] = "update-function-configuration" =>
           /\ i = 2
           /\ deploy.calls[1] = "update-function-code"
           /\ deploy.code = "ok"
    /\ deploy.at = "returned" =>
         /\ deploy.ret = "True" <=>
              /\ deploy.code = "ok"
              /\ "raises" \notin {deploy.prepare, deploy.code, deploy.config}
         /\ deploy.ret = "False" <=>
              \/ deploy.code = "fails"
              \/ "raises" \in {deploy.prepare, deploy.code, deploy.config}
         /\ (script = "deploy_lambda" /\ deploy.code = "ok" /\ deploy.config # "ok")
              => deploy.ret = "False"

C29_Witness ==
  /\ script \in PackagingScripts
  /\ deploy.at = "returned"
  /\ deploy.calls = <<"update-function-code", "update-function-configuration">>
  /\ deploy.config = "fails"
  /\ deploy.ret = "True"

====
